---- MODULE Spec2Model ----
(***************************************************************************)
(* Checkers rules engine (GameLogic) of nmaynard14/checkers_game:          *)
(* inBounds, isDarkSquare, initBoard, applyMove, countPieces, hasAnyMoves, *)
(* driven by a caller that issues one engine call at a time.               *)
(***************************************************************************)
EXTENDS Integers, Sequences, FiniteSets, TLC

\* ------------------------------------------------------------------------
\* Program constants (GameLogic.h)
\* ------------------------------------------------------------------------
BOARD_SIZE == 8

Empty == 0
TealMan == 1
PurpleMan == 2
TealKing == 3
PurpleKing == 4

Piece == {Empty, TealMan, PurpleMan, TealKing, PurpleKing}

rowsPerSide == 3

\* ------------------------------------------------------------------------
\* Bounds of the model
\* ------------------------------------------------------------------------
\* How far outside the board the enumerated call arguments reach.
Margin == 1
\* How many accepted moves a run of Spec applies.
MaxMoves == 2

Idx == 0 .. (BOARD_SIZE - 1)
Coord == (0 - Margin) .. (BOARD_SIZE - 1 + Margin)

\* ------------------------------------------------------------------------
\* C++ integer arithmetic: / and % truncate toward zero, std::abs
\* ------------------------------------------------------------------------
abs(x) == IF x < 0 THEN 0 - x ELSE x

CDiv(a, b) == IF a >= 0 THEN a \div b ELSE 0 - ((0 - a) \div b)

CMod(a, b) == a - b * CDiv(a, b)

\* ------------------------------------------------------------------------
\* Board model
\* ------------------------------------------------------------------------
inBounds(r, c) == r >= 0 /\ r < BOARD_SIZE /\ c >= 0 /\ c < BOARD_SIZE

\* mutant of isDarkSquare: the parity test inverted
isDarkSquareEven(r, c) == CMod(r + c, 2) = 0

isDarkSquare(r, c) == CMod(r + c, 2) = 1

isTealPiece(p) == p = TealMan \/ p = TealKing

isPurplePiece(p) == p = PurpleMan \/ p = PurpleKing

\* std::array<std::array<Piece,8>,8> board{} : every square value-initialised
EmptyBoard == [r \in Idx |-> [c \in Idx |-> Empty]]

\* GameState as default-constructed
NewGameState ==
    [board |-> EmptyBoard, currentPlayer |-> TealMan,
     selectedRow |-> -1, selectedCol |-> -1]

\* board with square (r,c) set to p
SetSq(b, r, c, p) == [b EXCEPT ![r][c] = p]

\* The piece initBoard leaves on square (r,c): fill(Empty), then the teal
\* loop over rows [0, rowsPerSide), then the purple loop over the last rows.
initPiece(r, c) ==
    IF r >= BOARD_SIZE - rowsPerSide /\ r < BOARD_SIZE /\ isDarkSquare(r, c)
        THEN PurpleMan
    ELSE IF r >= 0 /\ r < rowsPerSide /\ isDarkSquare(r, c)
        THEN TealMan
    ELSE Empty

\* mutant of initBoard: the board is not cleared first, so a square that gets
\* no man keeps what it held
initBoardNoClear(st) ==
    [st EXCEPT !.board = [r \in Idx |-> [c \in Idx |->
        IF initPiece(r, c) # Empty THEN initPiece(r, c) ELSE st.board[r][c]]]]

\* mutant of initBoard: the turn and the selection are reset as well
initBoardResetsTurn(st) ==
    [board |-> [r \in Idx |-> [c \in Idx |-> initPiece(r, c)]],
     currentPlayer |-> TealMan, selectedRow |-> -1, selectedCol |-> -1]

initBoard(st) ==
    [st EXCEPT !.board = [r \in Idx |-> [c \in Idx |-> initPiece(r, c)]]]

\* ------------------------------------------------------------------------
\* Rules engine
\* ------------------------------------------------------------------------
isKingPiece(piece) == piece = TealKing \/ piece = PurpleKing

forwardDirOf(piece) == IF isTealPiece(piece) THEN 1 ELSE -1

\* mutant of isAllowedDir: the isKing test is missing, so a man may go backward
isAllowedDirAnyPiece(piece, deltaRow) ==
    \/ deltaRow = forwardDirOf(piece)
    \/ deltaRow = 0 - forwardDirOf(piece)

\* the lambda isAllowedDir of applyMove, with its captures as parameters
isAllowedDir(piece, deltaRow) ==
    \/ deltaRow = forwardDirOf(piece)
    \/ isKingPiece(piece) /\ deltaRow = 0 - forwardDirOf(piece)

\* mutant of kinged: only a teal man is promoted
kingedTealOnly(piece, tr) ==
    IF piece = TealMan /\ tr = BOARD_SIZE - 1 THEN TealKing ELSE piece

\* "Handle kinging": the value left on the target square
kinged(piece, tr) ==
    IF piece = TealMan /\ tr = BOARD_SIZE - 1 THEN TealKing
    ELSE IF piece = PurpleMan /\ tr = 0 THEN PurpleKing
    ELSE piece

Rejected(st) == [ok |-> FALSE, state |-> st, wasCapture |-> FALSE]

\* mutant of stepMove: the piece is written to the source column
stepMoveWrongColumn(st, piece, sr, sc, tr, tc) ==
    LET b1 == SetSq(st.board, tr, sc, piece)
        b2 == SetSq(b1, sr, sc, Empty)
        b3 == SetSq(b2, tr, sc, kinged(piece, tr))
    IN  [ok |-> TRUE, state |-> [st EXCEPT !.board = b3], wasCapture |-> FALSE]

\* mutant of stepMove: the turn goes to the other side
stepMoveSwitchesTurn(st, piece, sr, sc, tr, tc) ==
    LET b1 == SetSq(st.board, tr, tc, piece)
        b2 == SetSq(b1, sr, sc, Empty)
        b3 == SetSq(b2, tr, tc, kinged(piece, tr))
    IN  [ok |-> TRUE,
         state |-> [st EXCEPT !.board = b3,
                              !.currentPlayer =
                                  IF st.currentPlayer = TealMan THEN PurpleMan
                                                                ELSE TealMan],
         wasCapture |-> FALSE]

\* the simple-move branch followed by kinging
stepMove(st, piece, sr, sc, tr, tc) ==
    LET b1 == SetSq(st.board, tr, tc, piece)
        b2 == SetSq(b1, sr, sc, Empty)
        b3 == SetSq(b2, tr, tc, kinged(piece, tr))
    IN  [ok |-> TRUE, state |-> [st EXCEPT !.board = b3], wasCapture |-> FALSE]

\* mutant of captureMove: the jumped square is cleared before the check that
\* it holds an opponent, so a refused jump over an own piece removes it
captureMoveClearsFirst(st, piece, sr, sc, tr, tc) ==
    LET mr == sr + CDiv(tr - sr, 2)
        mc == sc + CDiv(tc - sc, 2)
    IN  IF ~inBounds(mr, mc) THEN Rejected(st)
        ELSE LET mid == st.board[mr][mc]
                 b1 == SetSq(st.board, mr, mc, Empty)
             IN
             IF mid = Empty THEN Rejected(st)
             ELSE IF \/ isTealPiece(piece) /\ ~isPurplePiece(mid)
                     \/ isPurplePiece(piece) /\ ~isTealPiece(mid)
                  THEN Rejected([st EXCEPT !.board = b1])
             ELSE LET b2 == SetSq(b1, tr, tc, piece)
                      b3 == SetSq(b2, sr, sc, Empty)
                      b4 == SetSq(b3, tr, tc, kinged(piece, tr))
                  IN  [ok |-> TRUE, state |-> [st EXCEPT !.board = b4],
                       wasCapture |-> TRUE]

\* mutant of captureMove: a jump over a piece of the mover's own side is
\* taken as well
captureMoveAnyPiece(st, piece, sr, sc, tr, tc) ==
    LET mr == sr + CDiv(tr - sr, 2)
        mc == sc + CDiv(tc - sc, 2)
    IN  IF ~inBounds(mr, mc) THEN Rejected(st)
        ELSE IF st.board[mr][mc] = Empty THEN Rejected(st)
        ELSE LET b1 == SetSq(st.board, mr, mc, Empty)
                 b2 == SetSq(b1, tr, tc, piece)
                 b3 == SetSq(b2, sr, sc, Empty)
                 b4 == SetSq(b3, tr, tc, kinged(piece, tr))
             IN  [ok |-> TRUE, state |-> [st EXCEPT !.board = b4],
                  wasCapture |-> TRUE]

\* mutant of captureMove: the kinging is done for simple moves only
captureMoveNoKinging(st, piece, sr, sc, tr, tc) ==
    LET mr == sr + CDiv(tr - sr, 2)
        mc == sc + CDiv(tc - sc, 2)
    IN  IF ~inBounds(mr, mc) THEN Rejected(st)
        ELSE LET mid == st.board[mr][mc] IN
             IF mid = Empty THEN Rejected(st)
             ELSE IF \/ isTealPiece(piece) /\ ~isPurplePiece(mid)
                     \/ isPurplePiece(piece) /\ ~isTealPiece(mid)
                  THEN Rejected(st)
             ELSE LET b1 == SetSq(st.board, mr, mc, Empty)
                      b2 == SetSq(b1, tr, tc, piece)
                      b3 == SetSq(b2, sr, sc, Empty)
                  IN  [ok |-> TRUE, state |-> [st EXCEPT !.board = b3],
                       wasCapture |-> TRUE]

\* mutant of captureMove: the jumped piece stays on the board
captureMoveKeepsJumped(st, piece, sr, sc, tr, tc) ==
    LET mr == sr + CDiv(tr - sr, 2)
        mc == sc + CDiv(tc - sc, 2)
    IN  IF ~inBounds(mr, mc) THEN Rejected(st)
        ELSE LET mid == st.board[mr][mc] IN
             IF mid = Empty THEN Rejected(st)
             ELSE IF \/ isTealPiece(piece) /\ ~isPurplePiece(mid)
                     \/ isPurplePiece(piece) /\ ~isTealPiece(mid)
                  THEN Rejected(st)
             ELSE LET b2 == SetSq(st.board, tr, tc, piece)
                      b3 == SetSq(b2, sr, sc, Empty)
                      b4 == SetSq(b3, tr, tc, kinged(piece, tr))
                  IN  [ok |-> TRUE, state |-> [st EXCEPT !.board = b4],
                       wasCapture |-> TRUE]

\* the capture branch followed by kinging
captureMove(st, piece, sr, sc, tr, tc) ==
    LET dr == tr - sr
        dc == tc - sc
        mr == sr + CDiv(dr, 2)
        mc == sc + CDiv(dc, 2)
    IN  IF ~inBounds(mr, mc) THEN Rejected(st)
        ELSE LET mid == st.board[mr][mc] IN
             IF mid = Empty THEN Rejected(st)
             ELSE IF \/ isTealPiece(piece) /\ ~isPurplePiece(mid)
                     \/ isPurplePiece(piece) /\ ~isTealPiece(mid)
                  THEN Rejected(st)
             ELSE LET b1 == SetSq(st.board, mr, mc, Empty)
                      b2 == SetSq(b1, tr, tc, piece)
                      b3 == SetSq(b2, sr, sc, Empty)
                      b4 == SetSq(b3, tr, tc, kinged(piece, tr))
                  IN  [ok |-> TRUE, state |-> [st EXCEPT !.board = b4],
                       wasCapture |-> TRUE]

\* mutant of targetOccupied: the test is missing
targetOccupiedNever(st, tr, tc) == FALSE

\* "target must be empty"
targetOccupied(st, tr, tc) == st.board[tr][tc] # Empty

\* mutant of isSimpleStep: the column distance is not tested
isSimpleStepAnyColumn(piece, dr, dc) ==
    abs(dr) = 1 /\ isAllowedDir(piece, dr)

\* the condition of the simple-move branch
isSimpleStep(piece, dr, dc) ==
    abs(dc) = 1 /\ abs(dr) = 1 /\ isAllowedDir(piece, dr)

\* the condition of the capture branch
isCaptureJump(piece, dr, dc) ==
    abs(dc) = 2 /\ abs(dr) = 2 /\ isAllowedDir(piece, CDiv(dr, 2))

\* mutant of movePiece: a simple step is refused while a piece of the mover's
\* side could capture
movePieceMandatoryCapture(st, piece, sr, sc, tr, tc) ==
    LET dr == tr - sr
        dc == tc - sc
        canCapture ==
            \E r \in 0..(BOARD_SIZE - 1), c \in 0..(BOARD_SIZE - 1),
               jr \in {-2, 2}, jc \in {-2, 2} :
                /\ st.board[r][c] # Empty
                /\ isTealPiece(st.board[r][c]) = isTealPiece(piece)
                /\ inBounds(r + jr, c + jc)
                /\ ~targetOccupied(st, r + jr, c + jc)
                /\ isCaptureJump(st.board[r][c], jr, jc)
                /\ captureMove(st, st.board[r][c], r, c, r + jr, c + jc).ok
    IN  IF isSimpleStep(piece, dr, dc)
            THEN IF canCapture THEN Rejected(st)
                 ELSE stepMove(st, piece, sr, sc, tr, tc)
        ELSE IF isCaptureJump(piece, dr, dc)
            THEN captureMove(st, piece, sr, sc, tr, tc)
        ELSE Rejected(st)

\* applyMove from "int dr = tr - sr" on: the branch taken by a piece that
\* stands on the source square
movePiece(st, piece, sr, sc, tr, tc) ==
    LET dr == tr - sr
        dc == tc - sc
    IN  IF isSimpleStep(piece, dr, dc)
            THEN stepMove(st, piece, sr, sc, tr, tc)
        ELSE IF isCaptureJump(piece, dr, dc)
            THEN captureMove(st, piece, sr, sc, tr, tc)
        ELSE Rejected(st)

\* mutant of applyMove: a piece that is not of state.currentPlayer is refused
applyMoveTurnChecked(st, sr, sc, tr, tc) ==
    IF ~inBounds(sr, sc) \/ ~inBounds(tr, tc) THEN Rejected(st)
    ELSE IF ~isDarkSquare(tr, tc) THEN Rejected(st)
    ELSE IF targetOccupied(st, tr, tc) THEN Rejected(st)
    ELSE LET piece == st.board[sr][sc] IN
         IF piece = Empty THEN Rejected(st)
         ELSE IF ~isTealPiece(piece) /\ ~isPurplePiece(piece) THEN Rejected(st)
         ELSE IF isTealPiece(piece) # isTealPiece(st.currentPlayer)
             THEN Rejected(st)
         ELSE movePiece(st, piece, sr, sc, tr, tc)

applyMove(st, sr, sc, tr, tc) ==
    IF ~inBounds(sr, sc) \/ ~inBounds(tr, tc) THEN Rejected(st)
    ELSE IF ~isDarkSquare(tr, tc) THEN Rejected(st)
    ELSE IF targetOccupied(st, tr, tc) THEN Rejected(st)
    ELSE LET piece == st.board[sr][sc] IN
         IF piece = Empty THEN Rejected(st)
         ELSE IF ~isTealPiece(piece) /\ ~isPurplePiece(piece) THEN Rejected(st)
         ELSE movePiece(st, piece, sr, sc, tr, tc)

\* ------------------------------------------------------------------------
\* Piece counts
\* ------------------------------------------------------------------------
Squares == Idx \X Idx

\* the values the caller's two int variables may hold when countPieces is
\* entered: fresh zeros, or the counts of an earlier call
PriorCounts == {0, 1, 12}

\* the squares of st.board that count as teal / as purple in countPieces
tealSquares(st) == {s \in Squares : isTealPiece(st.board[s[1]][s[2]])}

purpleSquares(st) ==
    {s \in Squares : ~isTealPiece(st.board[s[1]][s[2]])
                     /\ isPurplePiece(st.board[s[1]][s[2]])}

\* mutant of countPieces: the two outputs are not reset on entry
countPiecesNoReset(st, tealCount, purpleCount) ==
    [tealCount |-> tealCount + Cardinality(tealSquares(st)),
     purpleCount |-> purpleCount + Cardinality(purpleSquares(st))]

\* countPieces(state, tealCount, purpleCount): the arguments tealCount and
\* purpleCount are the values of the caller's variables on entry, the
\* result their values on return
countPieces(st, tealCount, purpleCount) ==
    LET tealCount0 == 0
        purpleCount0 == 0
    IN  [tealCount |-> tealCount0 + Cardinality(tealSquares(st)),
         purpleCount |-> purpleCount0 + Cardinality(purpleSquares(st))]

\* ------------------------------------------------------------------------
\* Move enumerator
\* ------------------------------------------------------------------------
\* mutant of candidateTargets: kings are tried in their forward direction only
candidateTargetsForwardOnly(piece, r, c) ==
    LET forwardDir == forwardDirOf(piece)
    IN  { <<r + step * dirSign, c + (IF dc > 0 THEN step ELSE 0 - step)>> :
            <<dc, step, dirSign>> \in
              { t \in ({-2, -1, 1, 2} \X {1, 2} \X {1, -1}) :
                  \/ t[2] * t[3] = forwardDir
                  \/ t[2] * t[3] = 2 * forwardDir } }

\* the candidates the three inner loops of hasAnyMoves try for the piece on (r,c)
candidateTargets(piece, r, c) ==
    LET forwardDir == forwardDirOf(piece)
        isKing == isKingPiece(piece)
    IN  { <<r + step * dirSign, c + (IF dc > 0 THEN step ELSE 0 - step)>> :
            <<dc, step, dirSign>> \in
              { t \in ({-2, -1, 1, 2} \X {1, 2} \X {1, -1}) :
                  isKing \/ t[2] * t[3] = forwardDir
                         \/ t[2] * t[3] = 2 * forwardDir } }

\* mutant of hasAnyMoves: the pieces of both sides are tried
hasAnyMovesAnySide(st, player) ==
    \E r \in Idx, c \in Idx :
      LET piece == st.board[r][c] IN
        /\ piece # Empty
        /\ \E t \in candidateTargets(piece, r, c) :
             applyMove(st, r, c, t[1], t[2]).ok

hasAnyMoves(st, player) ==
    LET lookTeal == isTealPiece(player)
        lookPurple == isPurplePiece(player)
    IN  \E r \in Idx, c \in Idx :
          LET piece == st.board[r][c] IN
            /\ piece # Empty
            /\ ~(lookTeal /\ ~isTealPiece(piece))
            /\ ~(lookPurple /\ ~isPurplePiece(piece))
            /\ \E t \in candidateTargets(piece, r, c) :
                 applyMove(st, r, c, t[1], t[2]).ok

\* the passes of the innermost loop of hasAnyMoves that reach applyMove, as
\* <<r, c, dc, step, dirSign>>: the loops are for loops over fixed ranges
triedByHasAnyMoves(st, player) ==
    LET lookTeal == isTealPiece(player)
        lookPurple == isPurplePiece(player)
        looked == { s \in Squares :
                      /\ st.board[s[1]][s[2]] # Empty
                      /\ ~(lookTeal /\ ~isTealPiece(st.board[s[1]][s[2]]))
                      /\ ~(lookPurple /\ ~isPurplePiece(st.board[s[1]][s[2]])) }
    IN  { <<s[1], s[2], t[1], t[2], t[3]>> :
            <<s, t>> \in
              { x \in looked \X ({-2, -1, 1, 2} \X {1, 2} \X {1, -1}) :
                  LET piece == st.board[x[1][1]][x[1][2]]
                  IN  \/ isKingPiece(piece)
                      \/ x[2][2] * x[2][3] = forwardDirOf(piece)
                      \/ x[2][2] * x[2][3] = 2 * forwardDirOf(piece) } }

\* the place of a pass in the order the loops run: r, c, dc, step, dirSign
passOrder(t) ==
    (((t[1] * BOARD_SIZE + t[2]) * 5 + (t[3] + 2)) * 2 + (t[4] - 1)) * 2
        + (IF t[5] = 1 THEN 0 ELSE 1)

\* mutant of hasAnyMovesTrials: the passes of both sides' pieces are counted
hasAnyMovesTrialsAnySide(st, player) ==
    Cardinality(triedByHasAnyMoves(st, Empty))

\* the number of applyMove calls hasAnyMoves makes: all passes, or those up
\* to the first one applyMove accepts ("return true")
hasAnyMovesTrials(st, player) ==
    LET tried == triedByHasAnyMoves(st, player)
        target(t) == <<t[1] + t[4] * t[5], t[2] + (IF t[3] > 0 THEN t[4] ELSE 0 - t[4])>>
        accepted == { t \in tried :
                        applyMove(st, t[1], t[2], target(t)[1], target(t)[2]).ok }
    IN  IF accepted = {} THEN Cardinality(tried)
        ELSE LET first == CHOOSE a \in accepted :
                              \A b \in accepted : passOrder(a) <= passOrder(b)
             IN  Cardinality({ t \in tried : passOrder(t) <= passOrder(first) })

\* ------------------------------------------------------------------------
\* Move selector (CheckersAI)
\* ------------------------------------------------------------------------
\* enum class AIDifficulty
Easy == 0
Medium == 1
Hard == 2

AIDifficulty == {Easy, Medium, Hard}

\* prob(rng) < 0.5, with the draw of prob(rng) counted in hundredths
bestMoveChancePct == 50

\* mutant of neighbourOffsets: the loops reach the adjacent squares only
neighbourOffsetsAdjacent == {-1, 1}

\* the row and column offsets of the "2-step diagonal neighborhood" loops
neighbourOffsets == {-2, -1, 1, 2}

NoMove == [sr |-> -1, sc |-> -1, tr |-> -1, tc |-> -1, isCapture |-> FALSE]

\* mutant of evaluatePosition: a king counts as two men
evaluatePositionKingsDouble(st) ==
    LET counts == countPieces(st, 0, 0)
        kings(k) == Cardinality({s \in Squares : st.board[s[1]][s[2]] = k})
    IN  (counts.purpleCount + kings(PurpleKing)) - (counts.tealCount + kings(TealKing))

evaluatePosition(st) ==
    LET counts == countPieces(st, 0, 0)
    IN  counts.purpleCount - counts.tealCount

\* mutant of allMovesOf: the pieces of both sides are tried
allMovesOfAnySide(st) ==
    { [sr |-> q[1], sc |-> q[2], tr |-> q[1] + q[3], tc |-> q[2] + q[4],
       isCapture |-> applyMove(st, q[1], q[2], q[1] + q[3], q[2] + q[4]).wasCapture] :
        q \in { x \in Idx \X Idx \X neighbourOffsets \X neighbourOffsets :
                  /\ st.board[x[1]][x[2]] # Empty
                  /\ applyMove(st, x[1], x[2], x[1] + x[3], x[2] + x[4]).ok } }

\* allMoves: every candidate of a purple piece that applyMove accepts on a
\* copy of the state, with the wasCapture it reported
allMovesOf(st) ==
    UNION { { [sr |-> s[1], sc |-> s[2], tr |-> s[1] + d[1], tc |-> s[2] + d[2],
               isCapture |-> applyMove(st, s[1], s[2], s[1] + d[1], s[2] + d[2]).wasCapture] :
                d \in { x \in neighbourOffsets \X neighbourOffsets :
                          applyMove(st, s[1], s[2], s[1] + x[1], s[2] + x[2]).ok } } :
            s \in { x \in Squares : st.board[x[1]][x[2]] = PurpleMan
                                    \/ st.board[x[1]][x[2]] = PurpleKing } }

\* mutant of moveScore: a capture gets no bonus
moveScoreNoBonus(st, m) ==
    evaluatePosition(applyMove(st, m.sr, m.sc, m.tr, m.tc).state)

\* the score the evaluation loop gives move m
moveScore(st, m) ==
    evaluatePosition(applyMove(st, m.sr, m.sc, m.tr, m.tc).state)
        + (IF m.isCapture THEN 2 ELSE 0)

\* bestMoves after the evaluation loop: the moves that reach the highest score
bestMovesOf(st) ==
    LET scored == { <<m, moveScore(st, m)>> : m \in allMovesOf(st) }
    IN  { p[1] : p \in { x \in scored : \A y \in scored : y[2] <= x[2] } }

\* the number of applyMove calls chooseMove makes: one for each of the 16
\* offsets of every purple piece, and one for every move of allMoves in the
\* evaluation loop
chooseMoveTrials(st) ==
    Cardinality({ s \in Squares : st.board[s[1]][s[2]] = PurpleMan
                                  \/ st.board[s[1]][s[2]] = PurpleKing })
            * Cardinality(neighbourOffsets \X neighbourOffsets)
        + Cardinality(allMovesOf(st))

\* mutant of chooseMoveResults: the chosen move is played on the caller's state
chooseMoveResultsInPlace(st, probPct) ==
    LET all == allMovesOf(st)
        best == bestMovesOf(st)
    IN  IF all = {} THEN {[ok |-> FALSE, move |-> NoMove, state |-> st]}
        ELSE { [ok |-> TRUE, move |-> m,
                state |-> applyMove(st, m.sr, m.sc, m.tr, m.tc).state] :
                 m \in (IF best # {} /\ probPct < bestMoveChancePct
                            THEN best ELSE all) }

\* what chooseMove can return when prob(rng) draws probPct hundredths: the two
\* index draws pickBest(rng), pickAll(rng) reach every element of their vector.
\* state is the caller's GameState after the call (a const reference; the
\* trial moves go to copies).
chooseMoveResults(st, probPct) ==
    LET all == allMovesOf(st)
        best == bestMovesOf(st)
    IN  IF all = {} THEN {[ok |-> FALSE, move |-> NoMove, state |-> st]}
        ELSE { [ok |-> TRUE, move |-> m, state |-> st] :
                 m \in (IF best # {} /\ probPct < bestMoveChancePct
                            THEN best ELSE all) }

\* ------------------------------------------------------------------------
\* The caller: one GameState, one engine call at a time
\* ------------------------------------------------------------------------
VARIABLES
    state,   \* the caller's GameState
    call,    \* the engine call the caller has just made: arguments and outputs
    moves,   \* accepted applyMove calls so far
    ui       \* the game loop of main: result, showPopup, running, place, input

vars == <<state, call, moves, ui>>

NoCounts == [tealCount |-> 0, purpleCount |-> 0]

NoCall ==
    [op |-> "none", args |-> <<>>, ret |-> FALSE, wasCapture |-> FALSE,
     counts |-> NoCounts, move |-> NoMove, pre |-> NewGameState, trials |-> 0]

\* board b with the squares sqs[i] holding ps[i]
placeAll(b, sqs, ps) ==
    [r \in Idx |-> [c \in Idx |->
        IF \E i \in DOMAIN sqs : sqs[i] = <<r, c>>
            THEN ps[CHOOSE i \in DOMAIN sqs : sqs[i] = <<r, c>>]
            ELSE b[r][c]]]

\* applyMove kings a man on its far row, so a position of a game shows none there
noManOnFarRow(b) ==
    \A c \in Idx : b[BOARD_SIZE - 1][c] # TealMan /\ b[0][c] # PurpleMan

\* the positions with any piece, or none, on each of the (dark) squares sqs
slotBoards(sqs) ==
    { b \in { placeAll(EmptyBoard, sqs, ps) : ps \in [DOMAIN sqs -> Piece] } :
        noManOnFarRow(b) }

\* two squares before row 7: teal promotion by step and by capture
SlotsTealEnd == <<<<5, 4>>, <<6, 5>>>>
\* two squares before row 0: purple promotion by step and by capture
SlotsPurpleEnd == <<<<2, 3>>, <<1, 2>>>>
\* the corner, where a piece can be blocked
SlotsCorner == <<<<6, 7>>, <<7, 6>>>>

\* a position of the middle game: on each side one man that can jump and
\* one that can only step
MidGameBoard ==
    placeAll(EmptyBoard, <<<<2, 1>>, <<2, 5>>, <<3, 2>>, <<5, 6>>>>,
             <<TealMan, TealMan, PurpleMan, PurpleMan>>)

StartBoards ==
    {initBoard(NewGameState).board, MidGameBoard}
        \cup slotBoards(SlotsTealEnd) \cup slotBoards(SlotsPurpleEnd)
        \cup slotBoards(SlotsCorner)

Sides == {TealMan, PurpleMan}

\* enum class GameResult
GameResult == {"Ongoing", "TealWin", "PurpleWin"}

\* what the last input poll saw of the mouse and the window: no click, a left
\* click on a board square (the square screenToBoard gives), on one of the
\* two popup buttons or elsewhere, or a request to close the window
NoInput == [kind |-> "idle", row |-> -1, col |-> -1]

Inputs ==
    {NoInput, [kind |-> "close", row |-> -1, col |-> -1],
     [kind |-> "newGame", row |-> -1, col |-> -1],
     [kind |-> "exit", row |-> -1, col |-> -1],
     [kind |-> "elsewhere", row |-> -1, col |-> -1]}
        \cup { [kind |-> "square", row |-> r, col |-> c] : r \in Idx, c \in Idx }

\* main's locals result, showPopup and running, the place main is at (pc) and
\* the input state of the window (in); here before main has started
NoUI ==
    [result |-> "Ongoing", showPopup |-> FALSE, running |-> TRUE,
     pc |-> "engine", in |-> NoInput]

\* Spec: the program from construction on
Init ==
    /\ state = NewGameState
    /\ call = NoCall
    /\ moves = 0
    /\ ui = NoUI

\* SpecCall: one engine call on a position of a game
InitCall ==
    /\ state \in { [NewGameState EXCEPT !.board = b, !.currentPlayer = p] :
                     b \in StartBoards, p \in Sides }
    /\ call = NoCall
    /\ moves = 0
    /\ ui = NoUI

InitBoard ==
    /\ call.op = "none"
    /\ state' = initBoard(state)
    /\ call' = [NoCall EXCEPT !.op = "initBoard", !.pre = state]
    /\ UNCHANGED <<moves, ui>>

ApplyMove(sr, sc, tr, tc) ==
    /\ call.op = "none"
    /\ moves < MaxMoves
    /\ LET res == applyMove(state, sr, sc, tr, tc) IN
         /\ state' = res.state
         /\ call' = [NoCall EXCEPT !.op = "applyMove",
                                   !.args = <<sr, sc, tr, tc>>,
                                   !.ret = res.ok,
                                   !.wasCapture = res.wasCapture,
                                   !.pre = state]
         /\ moves' = IF res.ok THEN moves + 1 ELSE moves
         /\ UNCHANGED ui

HasAnyMoves(player) ==
    /\ call.op = "none"
    /\ call' = [NoCall EXCEPT !.op = "hasAnyMoves",
                              !.args = <<player>>,
                              !.ret = hasAnyMoves(state, player),
                              !.trials = hasAnyMovesTrials(state, player),
                              !.pre = state]
    /\ UNCHANGED <<state, moves, ui>>

\* the caller drops the call's arguments and outputs and goes on
Return ==
    /\ call.op # "none"
    /\ call' = NoCall
    /\ UNCHANGED <<state, moves, ui>>

ApplyMoveCall ==
    /\ call.op = "none"
    /\ moves < MaxMoves
    /\ \E sr \in Coord, sc \in Coord, tr \in Coord, tc \in Coord :
         ApplyMove(sr, sc, tr, tc)

HasAnyMovesCall ==
    /\ call.op = "none"
    /\ \E player \in Piece : HasAnyMoves(player)

\* the draws of prob(rng), in hundredths: the ends of [0,1) and both sides of
\* the threshold
ProbDraws == {0, 49, 50, 99}

\* ai.chooseMove(state, sr, sc, tr, tc), of an AI built with any difficulty
ChooseMove(probPct) ==
    /\ call.op = "none"
    /\ \E res \in chooseMoveResults(state, probPct) :
         \E difficulty \in AIDifficulty :
           /\ state' = res.state
           /\ call' = [NoCall EXCEPT !.op = "chooseMove",
                                     !.args = <<difficulty, probPct>>,
                                     !.ret = res.ok,
                                     !.move = res.move,
                                     !.trials = chooseMoveTrials(state),
                                     !.pre = state]
    /\ UNCHANGED <<moves, ui>>

ChooseMoveCall == \E probPct \in ProbDraws : ChooseMove(probPct)

Next == InitBoard \/ ApplyMoveCall \/ HasAnyMovesCall \/ Return

NextCall == InitBoard \/ ApplyMoveCall \/ HasAnyMovesCall \/ ChooseMoveCall

Spec == Init /\ [][Next]_vars

SpecCall == InitCall /\ [][NextCall]_vars

\* ------------------------------------------------------------------------
\* Read-only engine calls on a position of a game
\* ------------------------------------------------------------------------
\* three squares in the middle: a purple piece with two jumps to choose from
SlotsMiddle == <<<<4, 3>>, <<3, 2>>, <<3, 4>>>>
\* a diagonal towards row 0: jump, step and promotion for purple
SlotsPurpleRun == <<<<3, 4>>, <<2, 3>>, <<1, 2>>>>

\* the corner where a purple piece can be blocked
SlotsPurpleCorner == <<<<1, 0>>, <<0, 1>>>>

QueryBoards ==
    StartBoards \cup slotBoards(SlotsMiddle) \cup slotBoards(SlotsPurpleRun)
        \cup slotBoards(SlotsPurpleCorner)

InitQuery ==
    /\ state \in { [NewGameState EXCEPT !.board = b, !.currentPlayer = p] :
                     b \in QueryBoards, p \in Sides }
    /\ call = NoCall
    /\ moves = 0
    /\ ui = NoUI

\* countPieces(state, tealCount, purpleCount) on variables holding any values
CountPieces ==
    /\ call.op = "none"
    /\ \E tealCount \in PriorCounts, purpleCount \in PriorCounts :
         call' = [NoCall EXCEPT !.op = "countPieces",
                                !.args = <<tealCount, purpleCount>>,
                                !.counts = countPieces(state, tealCount, purpleCount),
                                !.pre = state]
    /\ UNCHANGED <<state, moves, ui>>

NextQuery == ChooseMoveCall \/ CountPieces \/ HasAnyMovesCall

SpecQuery == InitQuery /\ [][NextQuery]_vars

\* ------------------------------------------------------------------------
\* The game loop of main
\* ------------------------------------------------------------------------
\* a game is followed for MaxPlies applied moves, the human's and the AI's
MaxPlies == 2

\* positions of a game in which teal, who is to move, has a move
\* teal can jump twice in a row
BoardDoubleJump ==
    placeAll(EmptyBoard, <<<<2, 1>>, <<3, 2>>, <<5, 4>>>>,
             <<TealMan, PurpleMan, PurpleMan>>)
\* teal can take the last purple piece
BoardLastPurple ==
    placeAll(EmptyBoard, <<<<2, 1>>, <<3, 2>>>>, <<TealMan, PurpleMan>>)
\* teal can block the last purple piece in the corner
BoardBlockPurple ==
    placeAll(EmptyBoard, <<<<1, 2>>, <<1, 0>>>>, <<TealKing, PurpleMan>>)
\* purple can take the last teal piece after teal steps next to it
BoardLastTeal ==
    placeAll(EmptyBoard, <<<<4, 3>>, <<6, 5>>>>, <<TealMan, PurpleMan>>)
\* purple can take the only teal piece that is not blocked
BoardBlockTeal ==
    placeAll(EmptyBoard, <<<<6, 7>>, <<4, 3>>, <<7, 6>>, <<6, 5>>>>,
             <<TealMan, TealMan, PurpleKing, PurpleMan>>)

GameBoards ==
    {initBoard(NewGameState).board, BoardDoubleJump, BoardLastPurple,
     BoardBlockPurple, BoardLastTeal, BoardBlockTeal}

\* renderer.isMouseButtonPressed(), IsMouseButtonPressed(MOUSE_BUTTON_LEFT)
isMouseButtonPressed(in) == in.kind \in {"square", "newGame", "exit", "elsewhere"}

\* mutant of sideLost: only the piece count is looked at
sideLostCountOnly(st, player, count) == count = 0

\* "count == 0 || !hasAnyMoves(state, player)", the test main makes of a side
sideLost(st, player, count) == count = 0 \/ ~hasAnyMoves(st, player)

\* the check at the top of the loop: the side to move has lost
topCheck(st, u) ==
    IF u.result # "Ongoing" THEN u
    ELSE LET counts == countPieces(st, 0, 0) IN
         IF st.currentPlayer = TealMan \/ st.currentPlayer = TealKing
             THEN IF sideLost(st, TealMan, counts.tealCount)
                      THEN [u EXCEPT !.result = "PurpleWin", !.showPopup = TRUE]
                      ELSE u
         ELSE IF st.currentPlayer = PurpleMan \/ st.currentPlayer = PurpleKing
             THEN IF sideLost(st, PurpleMan, counts.purpleCount)
                      THEN [u EXCEPT !.result = "TealWin", !.showPopup = TRUE]
                      ELSE u
         ELSE u

\* mutant of handleClick: a piece of either side can be selected
handleClickSelectsAny(st, in) ==
    LET row == in.row
        col == in.col
        stay == [moved |-> FALSE, state |-> st, wasCapture |-> FALSE, args |-> <<>>]
    IN  IF row = -1 \/ col = -1 THEN stay
        ELSE LET clicked == st.board[row][col]
                 isOwnPiece == clicked # Empty
                 selected == [st EXCEPT !.selectedRow = row, !.selectedCol = col]
             IN  IF st.selectedRow = -1
                     THEN IF isOwnPiece THEN [stay EXCEPT !.state = selected] ELSE stay
                 ELSE IF isOwnPiece THEN [stay EXCEPT !.state = selected]
                 ELSE LET res == applyMove(st, st.selectedRow, st.selectedCol, row, col)
                      IN  IF res.ok
                              THEN [moved |-> TRUE,
                                    state |-> [res.state EXCEPT !.selectedRow = -1,
                                                                !.selectedCol = -1],
                                    wasCapture |-> res.wasCapture,
                                    args |-> <<st.selectedRow, st.selectedCol, row, col>>]
                              ELSE stay

\* handleClick(state, renderer, wasCapture) for the click in: the state it
\* leaves, whether it moved a piece, and the applyMove call that did
handleClick(st, in) ==
    LET row == in.row
        col == in.col
        stay == [moved |-> FALSE, state |-> st, wasCapture |-> FALSE, args |-> <<>>]
    IN  IF row = -1 \/ col = -1 THEN stay
        ELSE LET clicked == st.board[row][col]
                 isOwnPiece ==
                    \/ st.currentPlayer = TealMan /\ isTealPiece(clicked)
                    \/ st.currentPlayer = PurpleMan /\ isPurplePiece(clicked)
                 selected == [st EXCEPT !.selectedRow = row, !.selectedCol = col]
             IN  IF st.selectedRow = -1
                     THEN IF isOwnPiece THEN [stay EXCEPT !.state = selected] ELSE stay
                 ELSE IF isOwnPiece THEN [stay EXCEPT !.state = selected]
                 ELSE LET res == applyMove(st, st.selectedRow, st.selectedCol, row, col)
                      IN  IF res.ok
                              THEN [moved |-> TRUE,
                                    state |-> [res.state EXCEPT !.selectedRow = -1,
                                                                !.selectedCol = -1],
                                    wasCapture |-> res.wasCapture,
                                    args |-> <<st.selectedRow, st.selectedCol, row, col>>]
                              ELSE stay

\* mutant of acceptsBoardClick: the result of the game is not looked at
acceptsBoardClickAnyResult(st, u) == st.currentPlayer = TealMan

\* "result == GameResult::Ongoing && state.currentPlayer == TealMan": a click
\* goes to handleClick
acceptsBoardClick(st, u) == u.result = "Ongoing" /\ st.currentPlayer = TealMan

\* SpecGame: main from the first test of the loop on, in a game in progress
InitGame ==
    /\ state \in { [NewGameState EXCEPT !.board = b] : b \in GameBoards }
    /\ call = NoCall
    /\ moves = 0
    /\ ui \in { [NoUI EXCEPT !.pc = "top", !.in = in] : in \in Inputs }

\* from the test of the while loop to the end of the input handling, or to
\* the point where handleClick has moved a piece of the human
Update ==
    /\ ui.pc = "top"
    /\ IF ~ui.running \/ ui.in.kind = "close"
         THEN /\ ui' = [ui EXCEPT !.pc = "done"]
              /\ UNCHANGED <<state, call, moves>>
         ELSE LET u == topCheck(state, ui) IN
              IF isMouseButtonPressed(ui.in) /\ u.showPopup
                  THEN /\ ui' = [u EXCEPT !.showPopup = FALSE, !.pc = "render"]
                       /\ UNCHANGED <<state, call, moves>>
              ELSE IF isMouseButtonPressed(ui.in) /\ acceptsBoardClick(state, u)
                  THEN LET hc == handleClick(state, ui.in) IN
                       IF hc.moved
                           THEN /\ moves < MaxPlies
                                /\ state' = hc.state
                                /\ call' = [NoCall EXCEPT !.op = "applyMove",
                                                          !.args = hc.args,
                                                          !.ret = TRUE,
                                                          !.wasCapture = hc.wasCapture,
                                                          !.pre = state]
                                /\ moves' = moves + 1
                                /\ ui' = [u EXCEPT !.pc = "afterHuman"]
                           ELSE /\ state' = hc.state
                                /\ ui' = [u EXCEPT !.pc = "render"]
                                /\ UNCHANGED <<call, moves>>
              ELSE /\ ui' = [u EXCEPT !.pc = "render"]
                   /\ UNCHANGED <<state, call, moves>>

\* mutant of afterHumanMove: after a capture the human keeps the turn while
\* the piece that captured can capture again
afterHumanMoveChained(st, u, landed) ==
    LET counts == countPieces(st, 0, 0) IN
    IF sideLost(st, PurpleMan, counts.purpleCount)
        THEN [state |-> st,
              ui |-> [u EXCEPT !.result = "TealWin", !.showPopup = TRUE, !.pc = "top"]]
    ELSE IF landed.wasCapture
            /\ \E jr \in {-2, 2}, jc \in {-2, 2} :
                   applyMove(st, landed.row, landed.col,
                             landed.row + jr, landed.col + jc).ok
        THEN [state |-> st, ui |-> [u EXCEPT !.pc = "render"]]
    ELSE [state |-> [st EXCEPT !.currentPlayer = PurpleMan],
          ui |-> [u EXCEPT !.pc = "ai"]]

\* mutant of afterHumanMove: the turn goes to purple without the test
afterHumanMoveNoCheck(st, u, landed) ==
    [state |-> [st EXCEPT !.currentPlayer = PurpleMan],
     ui |-> [u EXCEPT !.pc = "ai"]]

\* after the human's move: purple has lost (and the loop starts over), or
\* the turn goes to purple; landed is the move handleClick made
afterHumanMove(st, u, landed) ==
    LET counts == countPieces(st, 0, 0) IN
    IF sideLost(st, PurpleMan, counts.purpleCount)
        THEN [state |-> st,
              ui |-> [u EXCEPT !.result = "TealWin", !.showPopup = TRUE, !.pc = "top"]]
        ELSE [state |-> [st EXCEPT !.currentPlayer = PurpleMan],
              ui |-> [u EXCEPT !.pc = "ai"]]

AfterHumanMove ==
    /\ ui.pc = "afterHuman"
    /\ LET res == afterHumanMove(state, ui,
                      [row |-> call.args[3], col |-> call.args[4],
                       wasCapture |-> call.wasCapture])
       IN  state' = res.state /\ ui' = res.ui
    /\ UNCHANGED <<call, moves>>

\* the reply of the AI: chooseMove, applyMove of the move it returned, and
\* the selection cleared
AIMove ==
    /\ ui.pc = "ai"
    /\ moves < MaxPlies
    /\ \E probPct \in ProbDraws :
         \E chosen \in chooseMoveResults(state, probPct) :
           IF chosen.ok
               THEN LET m == chosen.move
                        res == applyMove(chosen.state, m.sr, m.sc, m.tr, m.tc)
                    IN  /\ state' = [res.state EXCEPT !.selectedRow = -1,
                                                      !.selectedCol = -1]
                        /\ call' = IF res.ok
                                     THEN [NoCall EXCEPT
                                             !.op = "applyMove",
                                             !.args = <<m.sr, m.sc, m.tr, m.tc>>,
                                             !.ret = TRUE,
                                             !.wasCapture = res.wasCapture,
                                             !.pre = chosen.state]
                                     ELSE call
                        /\ moves' = IF res.ok THEN moves + 1 ELSE moves
               ELSE /\ state' = [chosen.state EXCEPT !.selectedRow = -1,
                                                     !.selectedCol = -1]
                    /\ UNCHANGED <<call, moves>>
    /\ ui' = [ui EXCEPT !.pc = "afterAI"]

\* after the AI's move: teal has lost, or the turn goes back to teal
AfterAIMove ==
    /\ ui.pc = "afterAI"
    /\ \E tealCount \in PriorCounts, purpleCount \in PriorCounts :
         LET counts == countPieces(state, tealCount, purpleCount) IN
         IF sideLost(state, TealMan, counts.tealCount)
             THEN /\ ui' = [ui EXCEPT !.result = "PurpleWin", !.showPopup = TRUE,
                                      !.pc = "render"]
                  /\ UNCHANGED state
             ELSE /\ state' = [state EXCEPT !.currentPlayer = TealMan]
                  /\ ui' = [ui EXCEPT !.pc = "render"]
    /\ UNCHANGED <<call, moves>>

\* renderer.renderGame(state): the frame is drawn and its EndDrawing polls
\* the input
RenderGame ==
    /\ ui.pc = "render"
    /\ \E in \in Inputs :
         /\ ui.in.kind = "close" => in = ui.in
         /\ ui' = [ui EXCEPT !.in = in, !.pc = "popup"]
    /\ UNCHANGED <<state, call, moves>>

\* the button handling of the popup block, for the input polled by renderGame
popupButtons(st, u) ==
    IF u.in.kind = "newGame"
        THEN [state |-> [initBoard(st) EXCEPT !.currentPlayer = TealMan,
                                              !.selectedRow = -1,
                                              !.selectedCol = -1],
              ui |-> [u EXCEPT !.result = "Ongoing", !.showPopup = FALSE],
              newGame |-> TRUE]
    ELSE IF u.in.kind = "exit"
        THEN [state |-> st, ui |-> [u EXCEPT !.running = FALSE], newGame |-> FALSE]
    ELSE [state |-> st, ui |-> u, newGame |-> FALSE]

\* "if (showPopup)": the popup is drawn over the frame, its buttons are
\* handled, and its EndDrawing polls the input again
Popup ==
    /\ ui.pc = "popup"
    /\ IF ui.showPopup
         THEN LET res == popupButtons(state, ui) IN
              /\ state' = res.state
              /\ call' = IF res.newGame THEN NoCall ELSE call
              /\ \E in \in Inputs :
                   /\ ui.in.kind = "close" => in = ui.in
                   /\ ui' = [res.ui EXCEPT !.in = in, !.pc = "top"]
         ELSE /\ ui' = [ui EXCEPT !.pc = "top"]
              /\ UNCHANGED <<state, call>>
    /\ UNCHANGED moves

NextGame ==
    Update \/ AfterHumanMove \/ AIMove \/ AfterAIMove \/ RenderGame \/ Popup

SpecGame == InitGame /\ [][NextGame]_vars

\* ------------------------------------------------------------------------
\* The rules of the game, stated apart from the engine's code
\* ------------------------------------------------------------------------
OnBoard(r, c) == r \in Idx /\ c \in Idx

Dark(r, c) == (r + c) % 2 = 1

Teal(p) == p \in {TealMan, TealKing}

Purple(p) == p \in {PurpleMan, PurpleKing}

King(p) == p \in {TealKing, PurpleKing}

Opposing(p, q) == (Teal(p) /\ Purple(q)) \/ (Purple(p) /\ Teal(q))

SameSide(p, q) == (Teal(p) /\ Teal(q)) \/ (Purple(p) /\ Purple(q))

\* the piece on (r,c), none outside the board
At(st, r, c) == IF OnBoard(r, c) THEN st.board[r][c] ELSE Empty

Fwd(p) == IF Teal(p) THEN 1 ELSE -1

\* row direction d is open to piece p
DirOK(p, d) == d = Fwd(p) \/ (King(p) /\ d = 0 - Fwd(p))

TargetFree(st, tr, tc) == OnBoard(tr, tc) /\ Dark(tr, tc) /\ st.board[tr][tc] = Empty

LegalStep(st, sr, sc, tr, tc) ==
    /\ At(st, sr, sc) # Empty
    /\ TargetFree(st, tr, tc)
    /\ abs(tr - sr) = 1 /\ abs(tc - sc) = 1
    /\ DirOK(At(st, sr, sc), tr - sr)

LegalCapture(st, sr, sc, tr, tc) ==
    /\ At(st, sr, sc) # Empty
    /\ TargetFree(st, tr, tc)
    /\ abs(tr - sr) = 2 /\ abs(tc - sc) = 2
    /\ \E d \in {1, -1} : tr - sr = 2 * d /\ DirOK(At(st, sr, sc), d)
    /\ Opposing(At(st, sr, sc), At(st, (sr + tr) \div 2, (sc + tc) \div 2))

\* the call just made is applyMove; its arguments and the piece it was asked to move
IsApply == call.op = "applyMove"

aSr == call.args[1]

aSc == call.args[2]

aTr == call.args[3]

aTc == call.args[4]

aPiece == At(call.pre, aSr, aSc)

\* the source holds a piece of the side to move / of the other side
OwnTurn == aPiece # Empty /\ SameSide(aPiece, call.pre.currentPlayer)

WrongTurn == aPiece # Empty /\ Opposing(aPiece, call.pre.currentPlayer)

\* ------------------------------------------------------------------------
\* Claims
\* ------------------------------------------------------------------------

\* C1: if applyMove returns false, the state after the call equals the state
\* before it: every board square, currentPlayer, selectedRow and selectedCol.
C1_RejectedMoveLeavesState ==
    (IsApply /\ ~call.ret) => state = call.pre

\* C1 witness: a jump over a piece of the mover's own side onto a free dark
\* square has been refused.
C1_Witness ==
    /\ IsApply /\ ~call.ret
    /\ aPiece # Empty
    /\ TargetFree(call.pre, aTr, aTc)
    /\ abs(aTr - aSr) = 2 /\ abs(aTc - aSc) = 2
    /\ SameSide(aPiece, At(call.pre, (aSr + aTr) \div 2, (aSc + aTc) \div 2))

\* C2 as stated: whenever the source square holds a piece that is not of the
\* side to move, applyMove returns false and mutates nothing.
C2_WrongTurnRejected ==
    (IsApply /\ WrongTurn) => (~call.ret /\ state = call.pre)

\* C2 amended: applyMove does not look at currentPlayer. A piece that is not
\* of the side to move is moved exactly when the move is a legal step or a
\* legal capture for that piece; otherwise applyMove returns false and
\* mutates nothing.
C2_WrongTurnMovesWhenLegal ==
    (IsApply /\ WrongTurn) =>
        /\ call.ret <=> (\/ LegalStep(call.pre, aSr, aSc, aTr, aTc)
                         \/ LegalCapture(call.pre, aSr, aSc, aTr, aTc))
        /\ ~call.ret => state = call.pre

\* C2 witness: a purple piece has been moved while currentPlayer is teal.
C2_Witness ==
    /\ IsApply /\ WrongTurn /\ call.ret
    /\ Purple(aPiece) /\ call.pre.currentPlayer = TealMan
    /\ state.board[aSr][aSc] = Empty
    /\ Purple(state.board[aTr][aTc])

aMid == At(call.pre, (aSr + aTr) \div 2, (aSc + aTc) \div 2)

\* C4: for a piece of the side to move and |dr| = |dc| = 1, applyMove accepts
\* iff the destination is on the board, dark and empty and dr is the mover's
\* forward direction or, for a king, the backward one; then the piece is on
\* the destination, the source is empty and wasCapture is false.
C4_StepAcceptedIff ==
    (IsApply /\ OwnTurn /\ abs(aTr - aSr) = 1 /\ abs(aTc - aSc) = 1) =>
        /\ call.ret <=> (TargetFree(call.pre, aTr, aTc) /\ DirOK(aPiece, aTr - aSr))
        /\ call.ret =>
             /\ SameSide(state.board[aTr][aTc], aPiece)
             /\ King(aPiece) => state.board[aTr][aTc] = aPiece
             /\ state.board[aSr][aSc] = Empty
             /\ ~call.wasCapture

\* C4 witness: on a fresh board the teal step (2,1)->(3,0) has been accepted.
C4_Witness ==
    /\ IsApply /\ call.ret /\ ~call.wasCapture
    /\ call.pre.board = initBoard(NewGameState).board
    /\ call.pre.currentPlayer = TealMan
    /\ call.args = <<2, 1, 3, 0>>
    /\ state.board[3][0] = TealMan /\ state.board[2][1] = Empty

\* C5: for a piece of the side to move and |dr| = |dc| = 2, applyMove accepts
\* iff the destination is on the board, dark and empty, dr/2 is an allowed row
\* direction and the midpoint holds a piece of the other side; then midpoint
\* and source are empty, the destination holds the piece and wasCapture is true.
C5_CaptureAcceptedIff ==
    (IsApply /\ OwnTurn /\ abs(aTr - aSr) = 2 /\ abs(aTc - aSc) = 2) =>
        /\ call.ret <=> /\ TargetFree(call.pre, aTr, aTc)
                        /\ \E d \in {1, -1} : aTr - aSr = 2 * d /\ DirOK(aPiece, d)
                        /\ Opposing(aPiece, aMid)
        /\ call.ret =>
             /\ state.board[(aSr + aTr) \div 2][(aSc + aTc) \div 2] = Empty
             /\ state.board[aSr][aSc] = Empty
             /\ SameSide(state.board[aTr][aTc], aPiece)
             /\ King(aPiece) => state.board[aTr][aTc] = aPiece
             /\ call.wasCapture

\* C5 witness: a teal man has jumped a purple man onto an empty square.
C5_Witness ==
    /\ IsApply /\ call.ret /\ call.wasCapture
    /\ call.pre.currentPlayer = TealMan
    /\ aPiece = TealMan /\ aMid = PurpleMan
    /\ state.board[aTr][aTc] = TealMan
    /\ At(state, (aSr + aTr) \div 2, (aSc + aTc) \div 2) = Empty

\* C6: applyMove rejects every move whose (|dr|,|dc|) is neither (1,1) nor
\* (2,2), and every distance-2 diagonal move whose midpoint is empty or holds
\* a piece of the mover's own side.
C6_OtherMovesRejected ==
    IsApply =>
        /\ ( /\ ~(abs(aTr - aSr) = 1 /\ abs(aTc - aSc) = 1)
             /\ ~(abs(aTr - aSr) = 2 /\ abs(aTc - aSc) = 2) ) => ~call.ret
        /\ ( /\ abs(aTr - aSr) = 2 /\ abs(aTc - aSc) = 2
             /\ (aMid = Empty \/ SameSide(aPiece, aMid)) ) => ~call.ret

\* C6 witness: a two-square diagonal move in an allowed direction onto a free
\* dark square, over an empty midpoint, has been refused.
C6_Witness ==
    /\ IsApply /\ ~call.ret
    /\ aPiece # Empty
    /\ TargetFree(call.pre, aTr, aTc)
    /\ abs(aTr - aSr) = 2 /\ abs(aTc - aSc) = 2
    /\ \E d \in {1, -1} : aTr - aSr = 2 * d /\ DirOK(aPiece, d)
    /\ aMid = Empty

\* C7: applyMove returns false without mutation when the source or the
\* destination is off the board, the destination is a light square, the
\* destination is occupied, or the source square is empty.
C7_MalformedMoveRejected ==
    ( /\ IsApply
      /\ \/ ~OnBoard(aSr, aSc)
         \/ ~OnBoard(aTr, aTc)
         \/ ~Dark(aTr, aTc)
         \/ At(call.pre, aTr, aTc) # Empty
         \/ aPiece = Empty )
    => (~call.ret /\ state = call.pre)

\* C7 witness: a step in an allowed direction onto an occupied square has
\* been refused.
C7_Witness ==
    /\ IsApply /\ ~call.ret
    /\ aPiece # Empty
    /\ abs(aTr - aSr) = 1 /\ abs(aTc - aSc) = 1
    /\ DirOK(aPiece, aTr - aSr)
    /\ At(call.pre, aTr, aTc) # Empty

\* C8: after an accepted applyMove the destination holds a teal king if a
\* teal man landed on row 7, a purple king if a purple man landed on row 0,
\* and otherwise exactly the piece value that was on the source.
C8_Promotion ==
    (IsApply /\ call.ret) =>
        state.board[aTr][aTc] =
            IF aPiece = TealMan /\ aTr = 7 THEN TealKing
            ELSE IF aPiece = PurpleMan /\ aTr = 0 THEN PurpleKing
            ELSE aPiece

\* C8 witness: a man has reached its far row by a capture and is a king.
C8_Witness ==
    /\ IsApply /\ call.ret /\ call.wasCapture
    /\ aPiece = PurpleMan /\ aTr = 0
    /\ state.board[aTr][aTc] = PurpleKing

\* C9: after initBoard, whatever the board held before, there is a teal man
\* on every dark square of rows 0..2, a purple man on every dark square of
\* rows 5..7 and Empty everywhere else: 12 teal men, 12 purple men, no king.
C9_InitBoardPosition ==
    call.op = "initBoard" =>
        /\ \A r \in Idx, c \in Idx :
             state.board[r][c] =
                IF Dark(r, c) /\ r \in 0 .. 2 THEN TealMan
                ELSE IF Dark(r, c) /\ r \in 5 .. 7 THEN PurpleMan
                ELSE Empty
        /\ Cardinality({s \in Squares : state.board[s[1]][s[2]] = TealMan}) = 12
        /\ Cardinality({s \in Squares : state.board[s[1]][s[2]] = PurpleMan}) = 12
        /\ \A s \in Squares : ~King(state.board[s[1]][s[2]])

\* C9 witness: initBoard has run on a board that held men on rows 3 and 4.
C9_Witness ==
    /\ call.op = "initBoard"
    /\ \E c \in Idx : call.pre.board[3][c] # Empty
    /\ \E c \in Idx : call.pre.board[4][c] # Empty

\* C10: for each side, hasAnyMoves is true iff some square holds a piece of
\* that side and applyMove on a copy of the state accepts a move of it to some
\* destination on the board.
C10_HasAnyMovesExact ==
    (call.op = "hasAnyMoves" /\ call.args[1] # Empty) =>
        (call.ret <=>
            \E r \in Idx, c \in Idx :
                /\ SameSide(call.pre.board[r][c], call.args[1])
                /\ \E tr \in Idx, tc \in Idx :
                     applyMove(call.pre, r, c, tr, tc).ok)

\* C10 witness: a side that has a piece on the board has no move.
C10_Witness ==
    /\ call.op = "hasAnyMoves" /\ ~call.ret
    /\ call.args[1] = TealMan
    /\ \E r \in Idx, c \in Idx : Teal(call.pre.board[r][c])

\* C10 second case: a side whose only piece is a king on its far row has a move.
C10_WitnessKing ==
    /\ call.op = "hasAnyMoves" /\ call.ret
    /\ call.args[1] = TealMan
    /\ \A r \in Idx, c \in Idx : Teal(call.pre.board[r][c]) => r = 7

\* ------------------------------------------------------------------------
\* Claims about the move selector
\* ------------------------------------------------------------------------
IsChoose == call.op = "chooseMove"

\* the legal moves of purple, by the rules
LegalPurpleMoves(st) ==
    UNION { { <<s[1], s[2], t[1], t[2]>> : t \in
                { x \in Squares : \/ LegalStep(st, s[1], s[2], x[1], x[2])
                                  \/ LegalCapture(st, s[1], s[2], x[1], x[2]) } } :
            s \in { x \in Squares : Purple(st.board[x[1]][x[2]]) } }

SideCount(b, IsSide(_)) ==
    Cardinality({sq \in Squares : IsSide(b[sq[1]][sq[2]])})

\* purpleCount - tealCount after the move, +2 if it captures
RuleScore(st, sr, sc, tr, tc) ==
    LET res == applyMove(st, sr, sc, tr, tc) IN
        SideCount(res.state.board, Purple) - SideCount(res.state.board, Teal)
            + (IF LegalCapture(st, sr, sc, tr, tc) THEN 2 ELSE 0)

IsBestMove(st, sr, sc, tr, tc) ==
    \A q \in LegalPurpleMoves(st) :
        RuleScore(st, q[1], q[2], q[3], q[4]) <= RuleScore(st, sr, sc, tr, tc)

\* C11: with the hard preset, for every outcome of the random draws, the move
\* chooseMove returns has the maximum score over all legal purple moves.
C11_HardAlwaysBest ==
    (IsChoose /\ call.ret /\ call.args[1] = Hard) =>
        IsBestMove(call.pre, call.move.sr, call.move.sc, call.move.tr, call.move.tc)

\* C12: whenever chooseMove returns true, the returned move is a legal purple
\* move: the source holds a purple piece and applyMove on a copy accepts it.
C12_ChosenMoveLegal ==
    (IsChoose /\ call.ret) =>
        /\ OnBoard(call.move.sr, call.move.sc)
        /\ Purple(At(call.pre, call.move.sr, call.move.sc))
        /\ applyMove(call.pre, call.move.sr, call.move.sc,
                     call.move.tr, call.move.tc).ok
        /\ <<call.move.sr, call.move.sc, call.move.tr, call.move.tc>>
              \in LegalPurpleMoves(call.pre)

\* C12 witness: a step was returned, drawn from all moves, on a board where
\* teal has legal moves too.
C12_Witness ==
    /\ IsChoose /\ call.ret
    /\ call.args[2] >= bestMoveChancePct
    /\ ~call.move.isCapture
    /\ hasAnyMoves(call.pre, TealMan)

\* C13: chooseMove returns false iff purple has no legal move, and it returns
\* true iff hasAnyMoves(state, PurpleMan) is true.
C13_FoundIffPurpleCanMove ==
    IsChoose =>
        /\ call.ret <=> (LegalPurpleMoves(call.pre) # {})
        /\ call.ret <=> hasAnyMoves(call.pre, PurpleMan)

\* C13 witness: chooseMove found nothing although purple has a piece.
C13_Witness ==
    /\ IsChoose /\ ~call.ret
    /\ \E r \in Idx, c \in Idx : Purple(call.pre.board[r][c])

\* C13 second case: the only legal moves purple has are captures.
C13_WitnessOnlyCaptures ==
    /\ IsChoose /\ call.ret
    /\ \A q \in LegalPurpleMoves(call.pre) :
         LegalCapture(call.pre, q[1], q[2], q[3], q[4])

(* The three read-only calls of the engine and the selector. *)
IsQuery == call.op \in {"hasAnyMoves", "countPieces", "chooseMove"}

C14_WitnessHasAnyMoves ==
    /\ call.op = "hasAnyMoves"
    /\ call.ret
    /\ state = call.pre

\* some piece of the side of p has a legal capture in st
SideCanCapture(st, p) ==
    \E r \in Idx, c \in Idx, tr \in Idx, tc \in Idx :
        /\ SameSide(At(st, r, c), p)
        /\ LegalCapture(st, r, c, tr, tc)

\* C18: there is no mandatory-capture rule. applyMove accepts a legal simple
\* step, and carries it out as a step, also when the mover's side (that piece
\* or another one) has a capture available on the same board.
C18_StepAcceptedDespiteCapture ==
    (/\ IsApply
     /\ LegalStep(call.pre, aSr, aSc, aTr, aTc)
     /\ SideCanCapture(call.pre, aPiece)) =>
        /\ call.ret
        /\ ~call.wasCapture
        /\ state.board[aSr][aSc] = Empty
        /\ SameSide(state.board[aTr][aTc], aPiece)
        /\ \A r \in Idx, c \in Idx :
             (<<r, c>> # <<aSr, aSc>> /\ <<r, c>> # <<aTr, aTc>>) =>
                 state.board[r][c] = call.pre.board[r][c]

\* C18 witness: the piece that stepped could itself have captured.
C18_Witness ==
    /\ IsApply /\ call.ret /\ ~call.wasCapture
    /\ LegalStep(call.pre, aSr, aSc, aTr, aTc)
    /\ \E tr \in Idx, tc \in Idx : LegalCapture(call.pre, aSr, aSc, tr, tc)

\* a step was accepted while only another piece of the mover's side could capture
C18_WitnessOtherPiece ==
    /\ IsApply /\ call.ret /\ ~call.wasCapture
    /\ LegalStep(call.pre, aSr, aSc, aTr, aTc)
    /\ SideCanCapture(call.pre, aPiece)
    /\ ~ \E tr \in Idx, tc \in Idx : LegalCapture(call.pre, aSr, aSc, tr, tc)

\* ------------------------------------------------------------------------
\* Claims about a side without pieces and about the piece counts
\* ------------------------------------------------------------------------
NoPieceOf(st, IsSide(_)) ==
    \A r \in Idx, c \in Idx : ~IsSide(st.board[r][c])

\* C19: if a side has no piece on the board, hasAnyMoves for that side is
\* false and countPieces reports 0 for it.
C19_NoPiecesNoMoves ==
    /\ (call.op = "hasAnyMoves" /\ Teal(call.args[1]) /\ NoPieceOf(call.pre, Teal))
            => ~call.ret
    /\ (call.op = "hasAnyMoves" /\ Purple(call.args[1]) /\ NoPieceOf(call.pre, Purple))
            => ~call.ret
    /\ (call.op = "countPieces" /\ NoPieceOf(call.pre, Teal))
            => call.counts.tealCount = 0
    /\ (call.op = "countPieces" /\ NoPieceOf(call.pre, Purple))
            => call.counts.purpleCount = 0

\* C19 witness: hasAnyMoves was asked about purple on a board without purple
\* pieces on which a teal piece can move.
C19_Witness ==
    /\ call.op = "hasAnyMoves" /\ call.args[1] = PurpleMan /\ ~call.ret
    /\ NoPieceOf(call.pre, Purple)
    /\ \E r \in Idx, c \in Idx, tr \in Idx, tc \in Idx :
         Teal(At(call.pre, r, c)) /\ LegalStep(call.pre, r, c, tr, tc)

\* countPieces was called on such a board
C19_WitnessCount ==
    /\ call.op = "countPieces"
    /\ NoPieceOf(call.pre, Purple)
    /\ call.counts.purpleCount = 0
    /\ call.counts.tealCount > 0

\* C20: countPieces returns the number of squares holding TealMan or TealKing
\* and the number holding PurpleMan or PurpleKing, a king counting as a man
\* does, whatever values the two output variables held before the call.
C20_CountsExact ==
    (call.op = "countPieces") =>
        /\ call.counts.tealCount = SideCount(call.pre.board, Teal)
        /\ call.counts.purpleCount = SideCount(call.pre.board, Purple)

\* C20 witness: kings and men were counted into variables that held other values.
C20_Witness ==
    /\ call.op = "countPieces"
    /\ call.args[1] # 0 /\ call.args[2] # 0
    /\ \E r \in Idx, c \in Idx : call.pre.board[r][c] = TealKing
    /\ \E r \in Idx, c \in Idx : call.pre.board[r][c] = PurpleMan
    /\ call.counts.tealCount > 0 /\ call.counts.purpleCount > 0

\* ------------------------------------------------------------------------
\* Claims about the game loop
\* ------------------------------------------------------------------------
\* a side has a legal move by the rules
HasLegalMove(st, IsSide(_)) ==
    \E r \in Idx, c \in Idx, tr \in Idx, tc \in Idx :
        /\ IsSide(At(st, r, c))
        /\ LegalStep(st, r, c, tr, tc) \/ LegalCapture(st, r, c, tr, tc)

\* a side has no piece or no legal move
Stuck(st, IsSide(_)) == NoPieceOf(st, IsSide) \/ ~HasLegalMove(st, IsSide)

\* the piece moved by the applyMove call c
Mover(c) == At(c.pre, c.args[1], c.args[2])

\* the last thing done to the board is a half-move of the given side
HalfMoveBy(IsSide(_)) ==
    /\ call.op = "applyMove" /\ call.ret
    /\ IsSide(Mover(call))
    /\ state.board[call.args[1]][call.args[2]] = Empty
    /\ IsSide(state.board[call.args[3]][call.args[4]])

\* C15: the result leaves Ongoing exactly when, after an applied half-move,
\* the side now to move has no piece or no legal move: TealWin iff purple is
\* so after a teal move, PurpleWin iff teal is so after a purple move, and
\* nothing else takes the result away from Ongoing.
C15_GameEndsExactly ==
    [][ /\ (ui.pc = "afterHuman") =>
              /\ HalfMoveBy(Teal)
              /\ (ui'.result = "TealWin") <=> Stuck(state, Purple)
        /\ (ui.pc = "afterAI") =>
              /\ HalfMoveBy(Purple)
              /\ (ui'.result = "PurpleWin") <=> Stuck(state, Teal)
        /\ (ui.result = "Ongoing" /\ ui'.result # "Ongoing") =>
              /\ ui.pc \in {"afterHuman", "afterAI"}
              /\ state'.board = state.board
        /\ (ui.result # "Ongoing" /\ ui'.result # ui.result) =>
              /\ ui'.result = "Ongoing"
              /\ state'.board = initBoard(NewGameState).board
      ]_vars

\* C15 witness: purple has won by leaving teal a piece that cannot move.
C15_Witness ==
    /\ ui.result = "PurpleWin"
    /\ HalfMoveBy(Purple)
    /\ ~NoPieceOf(state, Teal)
    /\ ~HasLegalMove(state, Teal)

\* teal has won by leaving purple a piece that cannot move
C15_WitnessTealWin ==
    /\ ui.result = "TealWin"
    /\ HalfMoveBy(Teal)
    /\ ~NoPieceOf(state, Purple)
    /\ ~HasLegalMove(state, Purple)

\* a game goes on after a full turn
C15_WitnessOngoing ==
    /\ ui.result = "Ongoing" /\ ui.pc = "render"
    /\ HalfMoveBy(Purple)
    /\ state.currentPlayer = TealMan

\* C16: the moves applied to the board alternate teal, purple, teal, ...,
\* starting with teal, one move at a time; the board changes in no other
\* way but a new game. So the turn passes after a capture also when the piece
\* that captured could capture again.
C16_MovesAlternate ==
    [][ /\ (moves' # moves) =>
              /\ moves' = moves + 1
              /\ call'.op = "applyMove" /\ call'.ret
              /\ call'.pre.board = state.board
              /\ \/ LegalStep(state, call'.args[1], call'.args[2],
                              call'.args[3], call'.args[4])
                 \/ LegalCapture(state, call'.args[1], call'.args[2],
                                 call'.args[3], call'.args[4])
              /\ state'.board[call'.args[1]][call'.args[2]] = Empty
              /\ SameSide(state'.board[call'.args[3]][call'.args[4]], Mover(call'))
              /\ IF call.op = "none"
                     THEN Teal(Mover(call'))
                     ELSE Opposing(Mover(call'), Mover(call))
        /\ (state'.board # state.board) =>
              \/ moves' = moves + 1
              \/ /\ state'.board = initBoard(NewGameState).board
                 /\ call' = NoCall
      ]_vars

\* C16 witness: teal has captured, the piece that captured could capture
\* again, and the turn is purple's.
C16_Witness ==
    /\ ui.pc = "ai"
    /\ state.currentPlayer = PurpleMan
    /\ HalfMoveBy(Teal) /\ call.wasCapture
    /\ \E tr \in Idx, tc \in Idx :
         LegalCapture(state, call.args[3], call.args[4], tr, tc)

\* purple has replied to a move of teal
C16_WitnessReply ==
    /\ ui.pc = "afterAI" /\ moves = 2
    /\ HalfMoveBy(Purple)

\* C17 as stated: when the popup is showing and the player clicks its New
\* Game button, the board is the starting position, currentPlayer is TealMan,
\* the selection is cleared, the result is Ongoing and the popup is hidden;
\* when the player clicks Exit, the loop ends.
C17_PopupButtonsWork ==
    [][ /\ (/\ ui.showPopup /\ ui.running
            /\ ui.pc \in {"top", "popup"}
            /\ ui.in.kind = "newGame") =>
              /\ state' = [initBoard(NewGameState) EXCEPT !.currentPlayer = TealMan]
              /\ ui'.result = "Ongoing"
              /\ ~ui'.showPopup
        /\ (/\ ui.showPopup /\ ui.running
            /\ ui.pc \in {"top", "popup"}
            /\ ui.in.kind = "exit") =>
              \/ ~ui'.running
              \/ ui'.pc = "done"
      ]_vars

C21_WitnessEarlyReturn ==
    /\ call.op = "hasAnyMoves" /\ call.ret
    /\ call.trials < Cardinality(triedByHasAnyMoves(call.pre, call.args[1]))

\* chooseMove tried the 16 offsets of its pieces and scored what it found
C21_WitnessChoose ==
    /\ IsChoose /\ call.ret
    /\ call.trials > 16 * SideCount(call.pre.board, Purple)

\* ------------------------------------------------------------------------
\* Claims about the scores of the move selector
\* ------------------------------------------------------------------------
\* a move as the selector records it, for the legal purple move q
AsMove(st, q) ==
    [sr |-> q[1], sc |-> q[2], tr |-> q[3], tc |-> q[4],
     isCapture |-> LegalCapture(st, q[1], q[2], q[3], q[4])]

LegalPurpleCaptures(st) ==
    { q \in LegalPurpleMoves(st) : LegalCapture(st, q[1], q[2], q[3], q[4]) }

\* the score by the rules: purple pieces minus teal pieces after the move, a
\* king counting as a man, plus 2 for a capture; a capture takes one teal piece
ScoreByCount(st, q) ==
    SideCount(st.board, Purple) - SideCount(st.board, Teal)
        + (IF LegalCapture(st, q[1], q[2], q[3], q[4]) THEN 1 + 2 ELSE 0)

\* C22: chooseMove scores each legal purple move as purpleCount - tealCount
\* of the position after the move, plus 2 for a capture, kings counting as
\* men; bestMoves is the set of the legal moves with the maximum score; the
\* returned move is drawn from bestMoves or from all legal moves.
C22_ScoresAndBestMoves ==
    IsChoose =>
        LET st == call.pre
            legal == LegalPurpleMoves(st)
            scored == { <<q, ScoreByCount(st, q)>> : q \in legal }
            best == bestMovesOf(st)
        IN  /\ allMovesOf(st) = { AsMove(st, q) : q \in legal }
            /\ \A p \in scored : moveScore(st, AsMove(st, p[1])) = p[2]
            /\ best = { AsMove(st, p[1]) : p \in
                          { x \in scored : \A y \in scored : y[2] <= x[2] } }
            /\ call.ret =>
                 /\ call.move \in { AsMove(st, q) : q \in legal }
                 /\ call.args[2] < bestMoveChancePct => call.move \in best

\* C22 witness: a purple man could take a king or step onto row 0 and become
\* a king; chooseMove returned a move that is not one of the best.
C22_Witness ==
    /\ IsChoose /\ call.ret
    /\ \E q \in LegalPurpleCaptures(call.pre) :
         call.pre.board[(q[1] + q[3]) \div 2][(q[2] + q[4]) \div 2] = TealKing
    /\ \E q \in LegalPurpleMoves(call.pre) :
         call.pre.board[q[1]][q[2]] = PurpleMan /\ q[3] = 0
    /\ call.move \notin bestMovesOf(call.pre)

\* C29: when purple has a legal capture, bestMoves is exactly the set of
\* purple's legal captures, every capture scoring 3 more than every step;
\* when purple has no capture, bestMoves is the set of all legal moves.
C29_BestMovesAreCaptures ==
    IsChoose =>
        LET st == call.pre
            legal == LegalPurpleMoves(st)
            captures == LegalPurpleCaptures(st)
            best == bestMovesOf(st)
            scored == { <<q, moveScore(st, AsMove(st, q))>> : q \in legal }
        IN  /\ captures # {} => best = { AsMove(st, q) : q \in captures }
            /\ captures = {} => best = { AsMove(st, q) : q \in legal }
            /\ \A c \in scored, q \in scored :
                 (c[1] \in captures /\ q[1] \notin captures) => c[2] = q[2] + 3

\* C29 witness: purple could capture a king, capture a man, or step.
C29_Witness ==
    /\ IsChoose /\ call.ret
    /\ \E q \in LegalPurpleCaptures(call.pre) :
         call.pre.board[(q[1] + q[3]) \div 2][(q[2] + q[4]) \div 2] = TealKing
    /\ \E q \in LegalPurpleCaptures(call.pre) :
         call.pre.board[(q[1] + q[3]) \div 2][(q[2] + q[4]) \div 2] = TealMan
    /\ LegalPurpleMoves(call.pre) # LegalPurpleCaptures(call.pre)
    /\ Cardinality(bestMovesOf(call.pre)) = 2

\* purple had only steps to choose from, and more than one
C29_WitnessNoCapture ==
    /\ IsChoose /\ call.ret
    /\ LegalPurpleCaptures(call.pre) = {}
    /\ Cardinality(bestMovesOf(call.pre)) > 1

\* ------------------------------------------------------------------------
\* Claims about what applyMove and initBoard change
\* ------------------------------------------------------------------------
\* C23: an accepted applyMove changes only the source square, the
\* destination square and, for a capture, the square between them; every
\* other square, currentPlayer, selectedRow and selectedCol stay as they were.
C23_AcceptedMoveFrame ==
    (IsApply /\ call.ret) =>
        /\ \A r \in Idx, c \in Idx :
             (/\ <<r, c>> # <<aSr, aSc>>
              /\ <<r, c>> # <<aTr, aTc>>
              /\ ~(call.wasCapture /\ <<r, c>> = <<(aSr + aTr) \div 2, (aSc + aTc) \div 2>>))
                 => state.board[r][c] = call.pre.board[r][c]
        /\ state.currentPlayer = call.pre.currentPlayer
        /\ state.selectedRow = call.pre.selectedRow
        /\ state.selectedCol = call.pre.selectedCol

\* C23 witness: a capture was accepted on a board with other pieces of both
\* sides, and the three squares did change.
C23_Witness ==
    /\ IsApply /\ call.ret /\ call.wasCapture
    /\ state.board[aSr][aSc] # call.pre.board[aSr][aSc]
    /\ state.board[aTr][aTc] # call.pre.board[aTr][aTc]
    /\ state.board[(aSr + aTr) \div 2][(aSc + aTc) \div 2] = Empty
    /\ SideCount(state.board, Teal) > 1
    /\ SideCount(state.board, Purple) > 0

\* a step was accepted for the side that is to move
C23_WitnessStep ==
    /\ IsApply /\ call.ret /\ ~call.wasCapture /\ OwnTurn
    /\ SideCount(state.board, Teal) > 1

\* ------------------------------------------------------------------------
\* Claims about what every applyMove call preserves
\* ------------------------------------------------------------------------
\* the pieces initBoard gives a side: the dark squares of rowsPerSide rows
PiecesPerSide == rowsPerSide * (BOARD_SIZE \div 2)

\* C24: no applyMove call raises a side's piece count, and no count exceeds
\* 12: an accepted step leaves both counts as they were, an accepted capture
\* lowers the other side's count by exactly 1 and leaves the mover's.  The
\* bound of 12 is stated for every board a call starts from and every board
\* a call has changed; a call that leaves the board as it was leaves the
\* counts as they were, so it cannot report a capture.
C24_CountsNeverGrow ==
    /\ (call.op = "none" \/ state.board # call.pre.board) =>
         /\ SideCount(state.board, Teal) <= PiecesPerSide
         /\ SideCount(state.board, Purple) <= PiecesPerSide
    /\ (IsApply /\ state.board = call.pre.board) =>
         ~(call.ret /\ call.wasCapture /\ aPiece # Empty)
    /\ (IsApply /\ state.board # call.pre.board) =>
         LET teal0 == SideCount(call.pre.board, Teal)
             purple0 == SideCount(call.pre.board, Purple)
             teal1 == SideCount(state.board, Teal)
             purple1 == SideCount(state.board, Purple)
         IN  /\ teal1 <= teal0 /\ purple1 <= purple0
             /\ (~call.ret \/ ~call.wasCapture) => (teal1 = teal0 /\ purple1 = purple0)
             /\ (call.ret /\ call.wasCapture /\ Teal(aPiece)) =>
                    (teal1 = teal0 /\ purple1 = purple0 - 1)
             /\ (call.ret /\ call.wasCapture /\ Purple(aPiece)) =>
                    (purple1 = purple0 /\ teal1 = teal0 - 1)

\* C24 witness: a purple piece has captured one of two teal pieces.
C24_Witness ==
    /\ IsApply /\ call.ret /\ call.wasCapture /\ Purple(aPiece)
    /\ SideCount(call.pre.board, Teal) = 2
    /\ SideCount(state.board, Teal) = 1

\* a step was made on the full starting position: 12 pieces a side
C24_WitnessFullBoard ==
    /\ IsApply /\ call.ret /\ ~call.wasCapture
    /\ SideCount(state.board, Teal) = PiecesPerSide
    /\ SideCount(state.board, Purple) = PiecesPerSide

\* C25: no TealMan stands on row 7 and no PurpleMan on row 0: a man that
\* reaches its far row has been made a king.
C25_NoManOnFarRow ==
    \A c \in Idx :
        /\ state.board[BOARD_SIZE - 1][c] # TealMan
        /\ state.board[0][c] # PurpleMan

\* C25 witness: a teal man has just arrived on row 7, by a step.
C25_Witness ==
    /\ IsApply /\ call.ret /\ ~call.wasCapture
    /\ aPiece = TealMan /\ aTr = BOARD_SIZE - 1
    /\ state.board[aTr][aTc] = TealKing

\* a purple man has just arrived on row 0, by a step
C25_WitnessPurple ==
    /\ IsApply /\ call.ret /\ ~call.wasCapture
    /\ aPiece = PurpleMan /\ aTr = 0
    /\ state.board[aTr][aTc] = PurpleKing

\* ------------------------------------------------------------------------
\* Claims about the AI's half-turn, the selection and the end of a game
\* ------------------------------------------------------------------------
\* st2 is st after the legal move q and nothing else
OneMoveApart(st, st2, q) ==
    /\ LegalStep(st, q[1], q[2], q[3], q[4]) \/ LegalCapture(st, q[1], q[2], q[3], q[4])
    /\ st2.board[q[1]][q[2]] = Empty
    /\ SameSide(st2.board[q[3]][q[4]], st.board[q[1]][q[2]])
    /\ \A r \in Idx, c \in Idx :
         (/\ <<r, c>> # <<q[1], q[2]>>
          /\ <<r, c>> # <<q[3], q[4]>>
          /\ <<r, c>> # <<(q[1] + q[3]) \div 2, (q[2] + q[4]) \div 2>>)
             => st2.board[r][c] = st.board[r][c]
    /\ LegalStep(st, q[1], q[2], q[3], q[4]) => SideCount(st2.board, Teal) = SideCount(st.board, Teal)
    /\ LegalCapture(st, q[1], q[2], q[3], q[4]) =>
         st2.board[(q[1] + q[3]) \div 2][(q[2] + q[4]) \div 2] = Empty

\* C26: in the game loop chooseMove is called only where purple has a legal
\* move, so it returns true, and the applyMove made with what it returned is
\* accepted: the AI's half-turn changes the board by exactly one purple move.
C26_AIHalfTurn ==
    [][ (ui.pc = "ai") =>
          /\ HasLegalMove(state, Purple)
          /\ \A probPct \in ProbDraws :
               \A chosen \in chooseMoveResults(state, probPct) : chosen.ok
          /\ moves' = moves + 1
          /\ call'.op = "applyMove" /\ call'.ret
          /\ call'.pre.board = state.board
          /\ Purple(Mover(call'))
          /\ OneMoveApart(state, state', call'.args)
      ]_vars

\* C26 witness: the AI has answered with a capture.
C26_Witness ==
    /\ ui.pc = "afterAI"
    /\ HalfMoveBy(Purple) /\ call.wasCapture
    /\ SideCount(state.board, Teal) = SideCount(call.pre.board, Teal) - 1

\* nothing is selected, or a square of the board that holds a teal piece
SelectionIsTeal(st) ==
    IF st.selectedRow = -1 THEN st.selectedCol = -1
    ELSE /\ OnBoard(st.selectedRow, st.selectedCol)
         /\ Teal(st.board[st.selectedRow][st.selectedCol])

\* C27: whenever a square is selected, selectedRow and selectedCol are on the
\* board and the square holds a teal piece; so every move handleClick makes
\* moves a teal piece from the selected square; the selection is cleared
\* after every accepted human move, every AI move and every new game.
C27_SelectionIsTeal ==
    [][ /\ SelectionIsTeal(state)
        /\ SelectionIsTeal(state')
        /\ (moves' # moves) =>
              /\ state'.selectedRow = -1 /\ state'.selectedCol = -1
              /\ (ui.pc = "top") =>
                    /\ Teal(Mover(call'))
                    /\ call'.args[1] = state.selectedRow
                    /\ call'.args[2] = state.selectedCol
        /\ (ui.pc = "popup" /\ ui.showPopup /\ ui.in.kind = "newGame") =>
              (state'.selectedRow = -1 /\ state'.selectedCol = -1)
      ]_vars

\* C27 witness: a teal piece is selected and the click being handled is on a
\* purple piece.
C27_Witness ==
    /\ ui.pc = "render"
    /\ state.selectedRow # -1
    /\ Teal(state.board[state.selectedRow][state.selectedCol])
    /\ ui.in.kind = "square"
    /\ Purple(state.board[ui.in.row][ui.in.col])

\* the human's move from the selected square has been made
C27_WitnessMoved ==
    /\ ui.pc = "afterHuman"
    /\ HalfMoveBy(Teal)
    /\ state.selectedRow = -1

\* C28: once the result is TealWin or PurpleWin, nothing changes the board,
\* the turn or the selection, no move is applied and the result stays, until
\* a new game sets up the board again and sets the result back to Ongoing.
C28_FrozenAfterGameOver ==
    [][ (ui.result # "Ongoing") =>
          \/ /\ state' = state
             /\ ui'.result = ui.result
             /\ moves' = moves
             /\ call' = call
          \/ /\ ui'.result = "Ongoing"
             /\ state' = [initBoard(NewGameState) EXCEPT !.currentPlayer = TealMan]
             /\ moves' = moves
      ]_vars

\* C28 witness: purple has won, the popup is closed, and a click on a teal
\* piece has been handled without selecting it.
C28_Witness ==
    /\ ui.result = "PurpleWin" /\ ~ui.showPopup
    /\ ui.pc = "render"
    /\ ui.in.kind = "square"
    /\ Teal(state.board[ui.in.row][ui.in.col])
    /\ state.selectedRow = -1
    /\ state.currentPlayer = PurpleMan

\* teal has won and a click on its piece has been handled
C28_WitnessTealWin ==
    /\ ui.result = "TealWin" /\ ~ui.showPopup
    /\ ui.pc = "render"
    /\ ui.in.kind = "square"
    /\ Teal(state.board[ui.in.row][ui.in.col])
    /\ state.selectedRow = -1
    /\ state.currentPlayer = TealMan

\* the starting position by the rules: men on the dark squares of the three
\* rows nearest to each side
StartPiece(r, c) ==
    IF Dark(r, c) /\ r <= 2 THEN TealMan
    ELSE IF Dark(r, c) /\ r >= 5 THEN PurpleMan
    ELSE Empty

\* C30: initBoard touches only the board: the board it leaves is the
\* starting position whatever the board held before, so a second call
\* changes nothing; currentPlayer, selectedRow and selectedCol are left as
\* they were.
C30_InitBoardFrame ==
    (call.op = "initBoard") =>
        /\ \A r \in Idx, c \in Idx : state.board[r][c] = StartPiece(r, c)
        /\ initBoard(state) = state
        /\ state.currentPlayer = call.pre.currentPlayer
        /\ state.selectedRow = call.pre.selectedRow
        /\ state.selectedCol = call.pre.selectedCol

\* C30 witness: initBoard has run on a board that was the starting position
\* already, with purple to move, and has changed nothing.
C30_Witness ==
    /\ call.op = "initBoard"
    /\ call.pre.currentPlayer = PurpleMan
    /\ \A r \in Idx, c \in Idx : call.pre.board[r][c] = StartPiece(r, c)
    /\ state = call.pre

\* initBoard has run on a position of the middle game, with purple to move
C30_WitnessMidGame ==
    /\ call.op = "initBoard"
    /\ call.pre.currentPlayer = PurpleMan
    /\ call.pre.board[3][2] = PurpleMan
    /\ state.board[3][2] = Empty
    /\ state.currentPlayer = PurpleMan

====
